---------------------------- MODULE Spec2Model ----------------------------
(***************************************************************************)
(* Model of AbLM-Eval's per-position comparison pipeline                   *)
(* (per_position_plot.py: _extract, _region_processing, _summary_df,       *)
(* per_pos_compare) and of utils/load_model.py.                            *)
(*                                                                         *)
(* Python values are represented as follows.                               *)
(*   str / list / array : a TLA+ sequence (a str is a sequence of          *)
(*                        one-character strings); Python index i is        *)
(*                        TLA+ index i+1                                   *)
(*   float              : a normalised fraction [num, den] with den > 0;   *)
(*                        NaN is [num |-> 0, den |-> 0]                    *)
(*   None               : the string "None"                                *)
(*   a raised exception : pc = "error" and err = <<class, message...>>      *)
(***************************************************************************)
EXTENDS Integers, Sequences, FiniteSets, TLC

VARIABLES
    df,             \* the results table: a sequence of rows (records)
    pc,             \* position in per_pos_compare / load_model_and_tokenizer
    err,            \* the exception that ended the run, <<class, message>>, or <<>>
    ri,             \* _region_processing: index of the row of the current iteration
    chain,          \* _region_processing: chain of the current iteration
    mask_segments,  \* _region_processing: the local list of the current iteration
    data,           \* _region_processing: the list of RegionRecords
    summary,        \* the rows returned by _summary_df
    args,           \* load_model_and_tokenizer: its arguments
    tokenizer,      \* load_model_and_tokenizer: local
    model           \* load_model_and_tokenizer: local

vars == <<df, pc, err, ri, chain, mask_segments, data, summary, args, tokenizer, model>>

-----------------------------------------------------------------------------
(* Bounds of the model *)

MaxMaskLen == 8
MaxRows == 2
MaxExtra == 1
MaxSeps == 2

-----------------------------------------------------------------------------
(* Python built-ins *)

Min(a, b) == IF a <= b THEN a ELSE b

\* s[a:b] for 0 <= a, 0 <= b
Slice(s, a, b) ==
    IF a >= Min(b, Len(s)) THEN <<>> ELSE SubSeq(s, a + 1, Min(b, Len(s)))

\* s[a:] for 0 <= a
SliceFrom(s, a) == Slice(s, a, Len(s))

\* str.count of a one-character pattern
RECURSIVE Count(_, _)
Count(s, ch) ==
    IF s = <<>> THEN 0
    ELSE (IF Head(s) = ch THEN 1 ELSE 0) + Count(Tail(s), ch)

\* whether sub occurs in s at Python index i
OccursAt(s, sub, i) ==
    /\ i + Len(sub) <= Len(s)
    /\ \A k \in 1..Len(sub) : s[i + k] = sub[k]

\* str.find(sub, from): the lowest index >= from where sub occurs, or -1
RECURSIVE Find(_, _, _)
Find(s, sub, from) ==
    IF from + Len(sub) > Len(s) THEN -1
    ELSE IF OccursAt(s, sub, from) THEN from
    ELSE Find(s, sub, from + 1)

\* str.split(sep) for a non-empty sep: cut at every non-overlapping occurrence,
\* scanning left to right
RECURSIVE Split(_, _)
Split(s, sep) ==
    LET i == Find(s, sep, 0)
    IN  IF i = -1 THEN <<s>>
        ELSE <<Slice(s, 0, i)>> \o Split(SliceFrom(s, i + Len(sep)), sep)

-----------------------------------------------------------------------------
(* Floats as fractions *)

NaN == [num |-> 0, den |-> 0]

IsNaN(x) == x.den = 0

Abs(n) == IF n < 0 THEN -n ELSE n

RECURSIVE GCD(_, _)
GCD(a, b) == IF b = 0 THEN a ELSE GCD(b, a % b)

\* n / d as a float; 0/0 (numpy's mean of nothing) is NaN
Frac(n, d) ==
    IF d = 0 THEN NaN
    ELSE LET g == GCD(Abs(n), Abs(d))
             sgn == IF d < 0 THEN -1 ELSE 1
         IN  [num |-> sgn * (n \div g), den |-> sgn * (d \div g)]

FAdd(x, y) == Frac(x.num * y.den + y.num * x.den, x.den * y.den)
FSub(x, y) == Frac(x.num * y.den - y.num * x.den, x.den * y.den)
FMul(x, y) == Frac(x.num * y.num, x.den * y.den)
FDivInt(x, n) == Frac(x.num, x.den * n)
FLess(x, y) == x.num * y.den < y.num * x.den
FLeq(x, y) == x.num * y.den <= y.num * x.den

RECURSIVE FSum(_)
FSum(xs) == IF xs = <<>> THEN Frac(0, 1) ELSE FAdd(Head(xs), FSum(Tail(xs)))

\* the k-th smallest (k from 1) of a non-empty sequence of non-NaN floats
Kth(xs, k) ==
    LET x == CHOOSE v \in {xs[i] : i \in 1..Len(xs)} :
                /\ Cardinality({i \in 1..Len(xs) : FLess(xs[i], v)}) < k
                /\ Cardinality({i \in 1..Len(xs) : FLeq(xs[i], v)}) >= k
    IN  x

\* np.mean of a sequence of floats without NaN: NaN when it is empty
Mean(xs) ==
    IF xs = <<>> THEN NaN ELSE FDivInt(FSum(xs), Len(xs))

\* np.median of a sequence of floats without NaN: NaN when it is empty
Median(xs) ==
    LET n == Len(xs)
    IN  IF n = 0 THEN NaN
        ELSE IF n % 2 = 1 THEN Kth(xs, (n + 1) \div 2)
        ELSE FDivInt(FAdd(Kth(xs, n \div 2), Kth(xs, n \div 2 + 1)), 2)

\* a sequence of numbers (ints or bools as 0/1) as floats
AsFloats(s) == [i \in 1..Len(s) |-> Frac(s[i], 1)]

-----------------------------------------------------------------------------
(* _extract (per_position_plot.py 14-41) *)

REGIONS == <<"FR1", "CDR1", "FR2", "CDR2", "FR3", "CDR3", "FR4">>

\* SepLen with the fault of counting every character (len(sep))
SepLenChars(sep) == Len(sep)

\* seplen = sep.count("<")
SepLen(sep) == Count(sep, "<")

\* the exception one row raises in the loop body, or "none": str.split raises
\* ValueError on an empty separator (line 31), and [1] raises IndexError when
\* the separator does not occur (line 32)
ExtractError(r) ==
    IF r.separator = <<>> THEN "ValueError"
    ELSE IF Len(Split(r.sequence, r.separator)) < 2 THEN "IndexError"
    ELSE "none"

\* the six values the loop body appends for one row
ExtractRow(r) ==
    LET hlen == Len(r.cdr_mask_heavy)
        sep == r.separator
        seplen == SepLen(sep)
    IN  [heavy_loss |-> Slice(r.loss, 0, hlen),
         light_loss |-> SliceFrom(r.loss, hlen + seplen),
         heavy_pred |-> Slice(r.prediction, 0, hlen),
         light_pred |-> SliceFrom(r.prediction, hlen + seplen),
         heavy_sequence |-> Split(r.sequence, sep)[1],
         light_sequence |-> Split(r.sequence, sep)[2]]

\* the first exception the loop over the rows raises, or "none"
ExtractRaises(d) ==
    LET bad == {i \in 1..Len(d) : ExtractError(d[i]) # "none"}
    IN  IF bad = {} THEN "none"
        ELSE ExtractError(d[CHOOSE i \in bad : \A j \in bad : i <= j])

\* the table with the six new columns
ExtractTable(d) == [i \in 1..Len(d) |-> d[i] @@ ExtractRow(d[i])]

_extract ==
    /\ pc = "extract"
    /\ IF ExtractRaises(df) # "none"
       THEN /\ pc' = "error"
            /\ err' = <<ExtractRaises(df)>>
            /\ df' = df
       ELSE /\ pc' = "region"
            /\ err' = err
            /\ df' = ExtractTable(df)
    /\ UNCHANGED <<ri, chain, mask_segments, data, summary, args, tokenizer, model>>

-----------------------------------------------------------------------------
(* _region_processing (per_position_plot.py 44-95) *)

\* mutated = bool(a or b): `a or b` is a when a is truthy, else b
Truthy(n) == n # 0
PyOr(a, b) == IF Truthy(a) THEN a ELSE b
Mutated(r) == Truthy(PyOr(r.v_mutation_count_aa_heavy, r.v_mutation_count_aa_light))

ChainLoss(r, ch) == IF ch = "heavy" THEN r.heavy_loss ELSE r.light_loss
ChainPred(r, ch) == IF ch = "heavy" THEN r.heavy_pred ELSE r.light_pred
ChainSeq(r, ch) == IF ch = "heavy" THEN r.heavy_sequence ELSE r.light_sequence
CdrMask(r, ch) == IF ch = "heavy" THEN r.cdr_mask_heavy ELSE r.cdr_mask_light

\* the scan of lines 63-68 from Python index i on, as half-open (start, end) pairs
RECURSIVE ScanMask(_, _, _, _, _)
ScanMask(cdr_mask, i, prev_char, start_idx, segs) ==
    IF i >= Len(cdr_mask)
    THEN Append(segs, <<start_idx, Len(cdr_mask)>>)
    ELSE LET char == cdr_mask[i + 1]
         IN  IF char # prev_char
             THEN ScanMask(cdr_mask, i + 1, char, i, Append(segs, <<start_idx, i>>))
             ELSE ScanMask(cdr_mask, i + 1, char, start_idx, segs)

\* MaskSegments with the fault of not closing the final region (line 68 left out)
MaskSegmentsNoFinal(cdr_mask) ==
    SubSeq(ScanMask(cdr_mask, 0, cdr_mask[1], 0, <<>>), 1,
           Len(ScanMask(cdr_mask, 0, cdr_mask[1], 0, <<>>)) - 1)

\* mask_segments of a non-empty mask (prev_char = cdr_mask[0], start_idx = 0)
MaskSegments(cdr_mask) == ScanMask(cdr_mask, 0, cdr_mask[1], 0, <<>>)

\* the gate of line 71
Accepted(segs) == Len(segs) = Len(REGIONS)

\* np.mean([p == t for p, t in zip(region_pred, region_seq)])
Accuracy(region_pred, region_seq) ==
    LET n == Min(Len(region_pred), Len(region_seq))
    IN  Mean(AsFloats([i \in 1..n |-> IF region_pred[i] = region_seq[i] THEN 1 ELSE 0]))

\* RegionSlice with the fault of an inclusive end (arr[start:end + 1])
RegionSliceInclusive(arr, start, end) == Slice(arr, start, end + 1)

\* arr[start:end] of lines 76-78
RegionSlice(arr, start, end) == Slice(arr, start, end)

\* the dict appended for one (region, (start, end)) pair
RegionRecord(r, ch, region, start, end) ==
    LET region_loss == RegionSlice(ChainLoss(r, ch), start, end)
        region_pred == RegionSlice(ChainPred(r, ch), start, end)
        region_seq == RegionSlice(ChainSeq(r, ch), start, end)
    IN  [region |-> region,
         model |-> r.model,
         chain |-> ch,
         mutated |-> Mutated(r),
         loss |-> region_loss,
         mean_loss |-> Mean(AsFloats(region_loss)),
         median_loss |-> Median(AsFloats(region_loss)),
         accuracy |-> Accuracy(region_pred, region_seq)]

\* the records of the loop over zip(REGIONS, mask_segments)
ChainRecords(r, ch, segs) ==
    [k \in 1..Min(Len(REGIONS), Len(segs)) |->
        RegionRecord(r, ch, REGIONS[k], segs[k][1], segs[k][2])]

\* the (row, chain) of the iteration after (i, ch)
NextIter(i, ch) == IF ch = "heavy" THEN <<i, "light">> ELSE <<i + 1, "heavy">>

\* one iteration of the loop over the chains of the rows; the last one returns
_region_processing ==
    /\ pc = "region"
    /\ LET it == NextIter(ri, chain)
           r == df[it[1]]
           cdr_mask == CdrMask(r, it[2])
           last == it[1] = Len(df) /\ it[2] = "light"
       IN  /\ ri' = it[1]
           /\ chain' = it[2]
           /\ IF cdr_mask = <<>>
              THEN \* line 60: cdr_mask[0] raises IndexError
                   /\ mask_segments' = <<>>
                   /\ data' = data
                   /\ pc' = "error"
                   /\ err' = <<"IndexError">>
              ELSE /\ mask_segments' = MaskSegments(cdr_mask)
                   /\ data' = IF Accepted(MaskSegments(cdr_mask))
                              THEN data \o ChainRecords(r, it[2], MaskSegments(cdr_mask))
                              ELSE data
                   /\ pc' = IF last THEN "summary" ELSE "region"
                   /\ err' = err
    /\ UNCHANGED <<df, summary, args, tokenizer, model>>

-----------------------------------------------------------------------------
(* _summary_df (per_position_plot.py 158-182) *)

\* the model identifiers of the tables, in the order str comparison gives
ModelOrder == <<"m1", "m2">>
ModelRank(m) == CHOOSE i \in 1..Len(ModelOrder) : ModelOrder[i] = m

\* (model, mutated) keys compared as sort_values does
KeyLess(a, b) ==
    \/ ModelRank(a[1]) < ModelRank(b[1])
    \/ a[1] = b[1] /\ a[2] = FALSE /\ b[2] = TRUE

RECURSIVE SortKeys(_)
SortKeys(S) ==
    IF S = {} THEN <<>>
    ELSE LET k == CHOOSE x \in S : \A y \in S \ {x} : KeyLess(x, y)
         IN  <<k>> \o SortKeys(S \ {k})

\* cdr3_df: the heavy-chain CDR3 records
Cdr3Df(d) ==
    SelectSeq(d, LAMBDA x : x.region = "CDR3" /\ x.chain = "heavy")

\* the non-NaN values of a column within the group of a key (pandas skips NaN)
RECURSIVE GroupValues(_, _, _)
GroupValues(d, key, col) ==
    IF d = <<>> THEN <<>>
    ELSE LET x == Head(d)
             v == IF col = "median_loss" THEN x.median_loss ELSE x.accuracy
         IN  (IF <<x.model, x.mutated>> = key /\ ~IsNaN(v) THEN <<v>> ELSE <<>>)
                 \o GroupValues(Tail(d), key, col)

\* the square of groupby(...).sem(): the sample variance (ddof = 1) over the
\* count; NaN when fewer than two values are left
SemSquared(xs) ==
    LET n == Len(xs)
        m == Mean(xs)
        sq == [i \in 1..n |-> FMul(FSub(xs[i], m), FSub(xs[i], m))]
    IN  IF n < 2 THEN NaN ELSE FDivInt(FDivInt(FSum(sq), n - 1), n)

\* format_value: "<mean> (+- <sem>)" when sem is not NaN, else "<mean>";
\* the sem is carried by its square
format_value(mean, sem) ==
    IF ~IsNaN(sem) THEN <<"num", mean, "+-", sem>> ELSE <<"num", mean>>

SummaryRow(d, key) ==
    [model |-> key[1],
     mutated |-> key[2],
     CDRH3_median_loss |->
        format_value(Median(GroupValues(d, key, "median_loss")),
                     SemSquared(GroupValues(d, key, "median_loss"))),
     CDRH3_accuracy |->
        format_value(Median(GroupValues(d, key, "accuracy")),
                     SemSquared(GroupValues(d, key, "accuracy")))]

SummaryTable(d) ==
    LET cdr3_df == Cdr3Df(d)
        keys == SortKeys({<<cdr3_df[i].model, cdr3_df[i].mutated>> : i \in 1..Len(cdr3_df)})
    IN  [j \in 1..Len(keys) |-> SummaryRow(cdr3_df, keys[j])]

\* per_pos_compare after _region_processing: a DataFrame built from no records
\* has no columns, so selecting a column raises KeyError
_summary_df ==
    /\ pc = "summary"
    /\ IF data = <<>>
       THEN /\ pc' = "error"
            /\ err' = <<"KeyError">>
            /\ summary' = summary
       ELSE /\ pc' = "done"
            /\ err' = err
            /\ summary' = SummaryTable(data)
    /\ UNCHANGED <<df, ri, chain, mask_segments, data, args, tokenizer, model>>

-----------------------------------------------------------------------------
(* load_model_and_tokenizer (load_model.py 11-39) *)

\* `a or b` on optional strings: None and "" are falsy
StrOr(a, b) == IF a = "None" \/ a = "" THEN b ELSE a

\* the value of a local before it is assigned
NoObject == [class |-> "None", path |-> "None", kwargs |-> <<>>]

\* the object a from_pretrained call returns
FromPretrained(class, path, kwargs) == [class |-> class, path |-> path, kwargs |-> kwargs]

TokenizerSource(a) == StrOr(a.tokenizer_path, a.model_path)

\* line 30
LoadTokenizer ==
    /\ pc = "load_tokenizer"
    /\ tokenizer' = FromPretrained("AutoTokenizer", TokenizerSource(args), <<>>)
    /\ pc' = "load_model"
    /\ UNCHANGED <<df, err, ri, chain, mask_segments, data, summary, args, model>>

\* ModelClass with the fault of a last branch that loads a classifier
ModelClassDefault(task) ==
    IF task = "mlm" THEN "AutoModelForMaskedLM" ELSE "AutoModelForSequenceClassification"

\* the class the task selects, or "None" for an unsupported task
ModelClass(task) ==
    IF task = "mlm" THEN "AutoModelForMaskedLM"
    ELSE IF task = "classification" THEN "AutoModelForSequenceClassification"
    ELSE "None"

\* lines 32-39
LoadModel ==
    /\ pc = "load_model"
    /\ IF ModelClass(args.task) # "None"
       THEN /\ model' = FromPretrained(ModelClass(args.task), args.model_path, args.kwargs)
            /\ pc' = "returned"
            /\ err' = err
       ELSE /\ model' = model
            /\ pc' = "error"
            /\ err' = <<"ValueError", "Unsupported task: ", args.task>>
    /\ UNCHANGED <<df, ri, chain, mask_segments, data, summary, args, tokenizer>>

-----------------------------------------------------------------------------
(* The tables and calls the runs start from *)

Labels == {"F", "C", "X"}

\* every mask of up to MaxMaskLen labels, the empty one included
AllMasks == UNION {[1..n -> Labels] : n \in 0..MaxMaskLen}

\* F C F C F C F: seven runs of one label each, with the last run made `extra` longer
SevenRuns(extra) ==
    [i \in 1..(Len(REGIONS) + extra) |->
        IF i > Len(REGIONS) \/ i % 2 = 1 THEN "F" ELSE "C"]

OneRun(n) == [i \in 1..n |-> "F"]

Cls == <<"<", "c", "l", "s", ">">>
Seps == {Cls, Cls \o Cls}

PredPatterns == {"A", "G", "alt"}
Residue(pat, i) == IF pat = "alt" THEN (IF i % 2 = 1 THEN "A" ELSE "G") ELSE pat

\* a chain of n residues
Chain(n) == [i \in 1..n |-> "A"]

RECURSIVE Join(_, _)
Join(parts, sep) ==
    IF Len(parts) = 1 THEN parts[1]
    ELSE parts[1] \o sep \o Join(Tail(parts), sep)

\* the sequence string of a row: the two chains joined by nsep separators
\* (none: the chains run together; more than one: further one-residue parts follow)
SequenceString(hl, ll, sep, nsep) ==
    IF nsep = 0 THEN Chain(hl) \o Chain(ll)
    ELSE Join(<<Chain(hl), Chain(ll)>> \o [k \in 1..(nsep - 1) |-> Chain(1)], sep)

\* a row of the results table: n loss values, each its own position, and n
\* predictions following pattern pp
Row(hm, lm, sep, nsep, n, pp, mh, ml, m) ==
    [sequence |-> SequenceString(Len(hm), Len(lm), sep, nsep),
     separator |-> sep,
     loss |-> [i \in 1..n |-> i],
     prediction |-> [i \in 1..n |-> Residue(pp, i)],
     cdr_mask_heavy |-> hm,
     cdr_mask_light |-> lm,
     v_mutation_count_aa_heavy |-> mh,
     v_mutation_count_aa_light |-> ml,
     model |-> m]

\* the length of loss and prediction when every token has one value
FullLen(hm, lm, sep) == Len(hm) + Count(sep, "<") + Len(lm)

NoArgs == [model_path |-> "None", task |-> "None", tokenizer_path |-> "None", kwargs |-> <<>>]

InitPipeline ==
    /\ pc = "extract"
    /\ err = <<>>
    /\ ri = 0
    /\ chain = "none"
    /\ mask_segments = <<>>
    /\ data = <<>>
    /\ summary = <<>>
    /\ args = NoArgs
    /\ tokenizer = NoObject
    /\ model = NoObject

\* batches of up to MaxRows rows
MaskPairs ==
    {<<SevenRuns(0), SevenRuns(0)>>, <<SevenRuns(0), OneRun(1)>>,
     <<OneRun(2), SevenRuns(0)>>, <<SevenRuns(0), <<>> >>}
ModelMut == {<<"m1", 0, 0>>, <<"m1", 0, 2>>, <<"m2", 1, 0>>}
BatchPool ==
    {Row(mp[1], mp[2], Cls, 1, FullLen(mp[1], mp[2], Cls), "alt", mm[2], mm[3], mm[1]) :
        mp \in MaskPairs, mm \in ModelMut}
    \cup
    {Row(SevenRuns(0), SevenRuns(0), Cls, 1, n, "A", mm[2], mm[3], mm[1]) :
        n \in {Len(REGIONS) - 2, FullLen(SevenRuns(0), SevenRuns(0), Cls)}, mm \in ModelMut}

Init ==
    /\ InitPipeline
    /\ df \in UNION {[1..n -> BatchPool] : n \in 1..MaxRows}

\* one row, one of its masks any mask at all
InitMask ==
    /\ InitPipeline
    /\ \E m \in AllMasks, o \in {SevenRuns(0), OneRun(1)}, side \in {"heavy", "light"} :
          LET hm == IF side = "heavy" THEN m ELSE o
              lm == IF side = "heavy" THEN o ELSE m
          IN  df = <<Row(hm, lm, Cls, 1, FullLen(hm, lm, Cls), "alt", 0, 0, "m1")>>

\* one row, its arrays of any length, its separator possibly empty and its sequence
\* with any number of separators
LenMasks == {SevenRuns(k) : k \in 0..(MaxMaskLen - Len(REGIONS))} \cup {OneRun(1), <<>>}
ExampleRow == Row(OneRun(10), OneRun(14), Cls, 1, 25, "alt", 0, 0, "m1")

InitLen ==
    /\ InitPipeline
    /\ \/ \E hm \in LenMasks, lm \in LenMasks, sep \in Seps \cup {<<>>}, nsep \in 0..MaxSeps,
             pp \in PredPatterns :
             \E n \in 0..(FullLen(hm, lm, sep) + MaxExtra) :
                df = <<Row(hm, lm, sep, nsep, n, pp, 0, 0, "m1")>>
       \/ df = <<ExampleRow>>

\* one call of load_model_and_tokenizer
InitLoad ==
    /\ pc = "load_tokenizer"
    /\ err = <<>>
    /\ ri = 0
    /\ chain = "none"
    /\ mask_segments = <<>>
    /\ data = <<>>
    /\ summary = <<>>
    /\ df = <<>>
    /\ args \in [model_path : {"ckpt/a", "ckpt/b"},
                 task : {"mlm", "classification", "regression", "MLM", ""},
                 tokenizer_path : {"None", "", "tok/a", "ckpt/b"},
                 kwargs : {<<>>, <<"num_labels">>}]
    /\ tokenizer = NoObject
    /\ model = NoObject

Next == _extract \/ _region_processing \/ _summary_df

NextLoad == LoadTokenizer \/ LoadModel

Spec == Init /\ [][Next]_vars
SpecMask == InitMask /\ [][Next]_vars
SpecLen == InitLen /\ [][Next]_vars
SpecLoad == InitLoad /\ [][NextLoad]_vars

-----------------------------------------------------------------------------
(* Vocabulary of the properties *)

\* the number of maximal runs of identical adjacent labels of a mask
RunStarts(mask) == {i \in 0..(Len(mask) - 1) : i = 0 \/ mask[i + 1] # mask[i]}
RunCount(mask) == Cardinality(RunStarts(mask))

\* the k-th run of a mask as a half-open range of Python indices
RunStart(mask, k) ==
    CHOOSE i \in RunStarts(mask) : Cardinality({j \in RunStarts(mask) : j < i}) = k - 1
RunEnd(mask, k) ==
    IF k = RunCount(mask) THEN Len(mask) ELSE RunStart(mask, k + 1)

\* _extract has returned: the rows carry the derived columns
Extracted == pc # "extract" /\ \A i \in 1..Len(df) : "heavy_loss" \in DOMAIN df[i]

\* the (row, chain) iterations of _region_processing entered so far, in order
IterationsSoFar ==
    [n \in 1..(IF chain = "none" THEN 0 ELSE IF chain = "heavy" THEN 2 * ri - 1 ELSE 2 * ri) |->
        <<(n + 1) \div 2, IF n % 2 = 1 THEN "heavy" ELSE "light">>]

\* those of them whose mask is made of exactly as many runs as there are regions
AcceptedSoFar ==
    SelectSeq(IterationsSoFar,
              LAMBDA it : RunCount(CdrMask(df[it[1]], it[2])) = Len(REGIONS))

\* the record emitted for the k-th region of the j-th accepted chain
RecordOf(j, k) == data[Len(REGIONS) * (j - 1) + k]

RECURSIVE Concat(_)
Concat(ss) == IF ss = <<>> THEN <<>> ELSE Head(ss) \o Concat(Tail(ss))

\* the loss fields of the records of the j-th accepted chain, concatenated in
\* canonical region order
ConcatLoss(j) == Concat([k \in 1..Len(REGIONS) |-> RecordOf(j, k).loss])

\* whether a string contains a (non-empty) separator
Contains(s, sep) ==
    sep # <<>> /\ \E i \in 0..(Len(s) - Len(sep)) : OccursAt(s, sep, i)

-----------------------------------------------------------------------------
(* C1 *)

\* C1: for every non-empty mask the scan's ranges are non-empty, ascending,
\* pairwise non-overlapping, cover exactly [0, len(mask)), and each is a maximal
\* run of identical adjacent labels; a mask of 7 runs gives 7 ranges, a mask of
\* one label gives the single range (0, 1).
C1_SegmentsAreTheRuns ==
    (/\ Extracted
     /\ chain # "none"
     /\ CdrMask(df[ri], chain) # <<>>)
    => LET mask == CdrMask(df[ri], chain)
           segs == mask_segments
           n == Len(segs)
       IN  /\ n >= 1
           /\ \A k \in 1..n : 0 <= segs[k][1] /\ segs[k][1] < segs[k][2] /\ segs[k][2] <= Len(mask)
           /\ segs[1][1] = 0
           /\ segs[n][2] = Len(mask)
           /\ \A k \in 1..(n - 1) : segs[k][2] = segs[k + 1][1]
           /\ \A k \in 1..n : \A i, j \in segs[k][1]..(segs[k][2] - 1) : mask[i + 1] = mask[j + 1]
           /\ \A k \in 1..(n - 1) : mask[segs[k][2]] # mask[segs[k][2] + 1]
           /\ n = RunCount(mask)
           /\ (RunCount(mask) = 7 => n = 7)
           /\ (Len(mask) = 1 => segs = << <<0, 1>> >>)

\* a mask of seven runs, one of them longer than one label, has been scanned
C1_Witness ==
    /\ Extracted
    /\ chain = "heavy"
    /\ RunCount(df[ri].cdr_mask_heavy) = 7
    /\ Len(df[ri].cdr_mask_heavy) > 7
    /\ Len(mask_segments) = 7
    /\ \E k \in 1..6 : mask_segments[k][2] - mask_segments[k][1] = 2

-----------------------------------------------------------------------------
(* C2 *)

\* C2: an iteration over a chain whose mask is not made of exactly 7 runs (a
\* mask of no elements included) emits no record, raises nothing and leaves
\* the loop running (or returns, after the last chain).
C2_MalformedChainIsSkipped ==
    [][(/\ pc = "region"
        /\ RunCount(CdrMask(df[NextIter(ri, chain)[1]], NextIter(ri, chain)[2])) # 7)
       => (/\ data' = data
           /\ err' = <<>>
           /\ pc' \in {"region", "summary"})]_vars

-----------------------------------------------------------------------------
(* C3 *)

\* C3 as stated: the concatenated loss fields of an accepted chain's records
\* are the chain's whole loss array.
C3_ConcatIsWholeLoss ==
    Extracted =>
        \A j \in 1..Len(AcceptedSoFar) :
            ConcatLoss(j) = ChainLoss(df[AcceptedSoFar[j][1]], AcceptedSoFar[j][2])

\* C3 amended: the concatenated loss fields of an accepted chain's records are
\* the first len(cdr_mask) elements of the chain's loss array, in order; that is
\* the whole array whenever it has no more elements than the mask (as heavy_loss
\* always does).
C3_ConcatIsLossUnderMask ==
    Extracted =>
        \A j \in 1..Len(AcceptedSoFar) :
            LET r == df[AcceptedSoFar[j][1]]
                ch == AcceptedSoFar[j][2]
                whole == ChainLoss(r, ch)
                under == Min(Len(whole), Len(CdrMask(r, ch)))
            IN  /\ Len(data) >= Len(REGIONS) * j
                /\ ConcatLoss(j) = [i \in 1..under |-> whole[i]]
                /\ (Len(whole) <= Len(CdrMask(r, ch)) => ConcatLoss(j) = whole)
                /\ (ch = "heavy" => ConcatLoss(j) = whole)

\* an accepted light chain whose loss array is longer than its mask, and an
\* accepted heavy chain reconstructed whole, have been processed
C3_Witness ==
    /\ Extracted
    /\ Len(AcceptedSoFar) = 2
    /\ ConcatLoss(1) = df[1].heavy_loss
    /\ Len(df[1].heavy_loss) = Len(df[1].cdr_mask_heavy)
    /\ Len(df[1].light_loss) > Len(df[1].cdr_mask_light)
    /\ Len(ConcatLoss(2)) = Len(df[1].cdr_mask_light)

-----------------------------------------------------------------------------
(* C4 *)

\* C4: once _extract has returned, heavy_loss / heavy_pred are the elements of
\* loss / prediction at indices [0, hlen) and light_loss / light_pred those at
\* [hlen + seplen, end), seplen being the number of '<' in the separator; the
\* light slices are empty when hlen + seplen reaches the array length, and the
\* array lengths never make _extract raise (it raises only for a row whose
\* sequence does not contain its separator). hlen = 10, "<cls>" and 25 values
\* give loss[0:10] and loss[11:25].
C4_ExtractSlices ==
    /\ Extracted =>
          \A i \in 1..Len(df) :
              LET r == df[i]
                  hlen == Len(r.cdr_mask_heavy)
                  seplen == Cardinality({k \in 1..Len(r.separator) : r.separator[k] = "<"})
                  cut == hlen + seplen
                  nl == Len(r.loss)
                  np == Len(r.prediction)
              IN  /\ r.heavy_loss = [k \in 1..Min(hlen, nl) |-> r.loss[k]]
                  /\ r.heavy_pred = [k \in 1..Min(hlen, np) |-> r.prediction[k]]
                  /\ r.light_loss = [k \in 1..(IF cut >= nl THEN 0 ELSE nl - cut) |-> r.loss[cut + k]]
                  /\ r.light_pred = [k \in 1..(IF cut >= np THEN 0 ELSE np - cut) |-> r.prediction[cut + k]]
                  /\ (cut >= nl => r.light_loss = <<>>)
                  /\ (cut >= np => r.light_pred = <<>>)
    /\ (pc # "extract" /\ \A i \in 1..Len(df) : Contains(df[i].sequence, df[i].separator))
          => Extracted
    /\ (Extracted /\ df[1].sequence = ExampleRow.sequence /\ df[1].loss = ExampleRow.loss)
          => (/\ df[1].heavy_loss = [k \in 1..10 |-> k]
              /\ df[1].light_loss = [k \in 1..14 |-> 11 + k])

\* _extract has returned for a row whose hlen + seplen is beyond its loss array
C4_Witness ==
    /\ Extracted
    /\ err = <<>>
    /\ Len(df[1].loss) > Len(df[1].cdr_mask_heavy)
    /\ Len(df[1].cdr_mask_heavy) + Count(df[1].separator, "<") > Len(df[1].loss)
    /\ df[1].light_loss = <<>>
    /\ Len(df[1].heavy_loss) = Len(df[1].cdr_mask_heavy)

-----------------------------------------------------------------------------
(* C5 *)

\* C5: the accuracy of every emitted record is the number of positions of its
\* range [start, end) where the predicted residue equals the true residue,
\* divided by end - start; it lies in [0, 1].
C5_AccuracyIsMatchFraction ==
    Extracted =>
        \A j \in 1..Len(AcceptedSoFar) : \A k \in 1..Len(REGIONS) :
            LET r == df[AcceptedSoFar[j][1]]
                ch == AcceptedSoFar[j][2]
                start == RunStart(CdrMask(r, ch), k)
                end == RunEnd(CdrMask(r, ch), k)
                pred == ChainPred(r, ch)
                seq == ChainSeq(r, ch)
                matches == Cardinality({i \in start..(end - 1) :
                                /\ i < Len(pred)
                                /\ i < Len(seq)
                                /\ pred[i + 1] = seq[i + 1]})
                acc == RecordOf(j, k).accuracy
            IN  /\ acc.den > 0
                /\ acc.num * (end - start) = matches * acc.den
                /\ 0 <= acc.num
                /\ acc.num <= acc.den

-----------------------------------------------------------------------------
(* C6 *)

\* the (row, chain) pairs of the table, in the order the loops visit them
AllIterations ==
    [n \in 1..(2 * Len(df)) |-> <<(n + 1) \div 2, IF n % 2 = 1 THEN "heavy" ELSE "light">>]

\* those of them whose mask is made of exactly as many runs as there are regions
AcceptedAll ==
    SelectSeq(AllIterations,
              LAMBDA it : RunCount(CdrMask(df[it[1]], it[2])) = Len(REGIONS))

\* _region_processing has ended, by returning or by raising
RegionProcessingOver == pc \in {"summary", "done"} \/ (pc = "error" /\ ri >= 1)

\* C6: when _region_processing has ended, every chain of every row whose mask
\* is made of 7 runs, whatever the row's other chain is, has exactly 7 records,
\* the k-th carrying the k-th canonical label, the row's model, the chain, and
\* mutated = (one of the two mutation counts is nonzero); there are 7 records
\* per accepted (row, chain) pair in all.
C6_SevenRecordsPerAcceptedChain ==
    (Extracted /\ RegionProcessingOver) =>
        /\ Len(data) = 7 * Len(AcceptedAll)
        /\ \A j \in 1..Len(AcceptedAll) : \A k \in 1..7 :
              LET r == df[AcceptedAll[j][1]]
                  rec == RecordOf(j, k)
              IN  /\ rec.region = REGIONS[k]
                  /\ rec.model = r.model
                  /\ rec.chain = AcceptedAll[j][2]
                  /\ rec.mutated = (r.v_mutation_count_aa_heavy # 0
                                    \/ r.v_mutation_count_aa_light # 0)

\* C6 on the chains visited so far: it holds after every iteration, and so at
\* every return; only a raise of line 60 leaves accepted chains without records.
C6_RecordsOfChainsSoFar ==
    Extracted =>
        /\ Len(data) = 7 * Len(AcceptedSoFar)
        /\ \A j \in 1..Len(AcceptedSoFar) : \A k \in 1..7 :
              LET r == df[AcceptedSoFar[j][1]]
                  rec == RecordOf(j, k)
              IN  /\ rec.region = REGIONS[k]
                  /\ rec.model = r.model
                  /\ rec.chain = AcceptedSoFar[j][2]
                  /\ rec.mutated = (r.v_mutation_count_aa_heavy # 0
                                    \/ r.v_mutation_count_aa_light # 0)
        /\ pc \in {"summary", "done"} => AcceptedSoFar = AcceptedAll

-----------------------------------------------------------------------------
(* C7 *)

\* the heavy-chain CDR3 records of a (model, mutated) pair
GroupOf(key) ==
    {i \in 1..Len(data) : /\ data[i].region = "CDR3"
                          /\ data[i].chain = "heavy"
                          /\ <<data[i].model, data[i].mutated>> = key}

HasPlusMinus(text) == Len(text) = 4 /\ text[3] = "+-"

\* C7: the summary has exactly one row per (model, mutated) pair of the
\* heavy-chain CDR3 records, ascending by (model, mutated), and each of its
\* formatted fields has a "+-" term exactly when the pair's group has at least
\* 2 records (a zero one when their values are identical).
C7_SummaryRows ==
    pc = "done" =>
        LET keys == {<<data[i].model, data[i].mutated>> :
                        i \in {n \in 1..Len(data) :
                                  data[n].region = "CDR3" /\ data[n].chain = "heavy"}}
        IN  /\ Len(summary) = Cardinality(keys)
            /\ {<<summary[j].model, summary[j].mutated>> : j \in 1..Len(summary)} = keys
            /\ \A j \in 1..(Len(summary) - 1) :
                  KeyLess(<<summary[j].model, summary[j].mutated>>,
                          <<summary[j + 1].model, summary[j + 1].mutated>>)
            /\ \A j \in 1..Len(summary) :
                  LET g == GroupOf(<<summary[j].model, summary[j].mutated>>)
                  IN  /\ HasPlusMinus(summary[j].CDRH3_median_loss) <=> Cardinality(g) >= 2
                      /\ HasPlusMinus(summary[j].CDRH3_accuracy) <=> Cardinality(g) >= 2
                      /\ (/\ Cardinality(g) >= 2
                          /\ \A a, b \in g : data[a].accuracy = data[b].accuracy)
                         => summary[j].CDRH3_accuracy[4] = Frac(0, 1)

-----------------------------------------------------------------------------
(* C8 *)

\* C8: for every row whose sequence contains the separator, heavy_sequence +
\* separator + light_sequence is the sequence.
C8_SplitRoundTrip ==
    Extracted =>
        \A i \in 1..Len(df) :
            Contains(df[i].sequence, df[i].separator) =>
                df[i].heavy_sequence \o df[i].separator \o df[i].light_sequence
                    = df[i].sequence

-----------------------------------------------------------------------------
(* C9 *)

\* C9: the call returns a (model, tokenizer) pair exactly when task is "mlm" or
\* "classification", the model loaded from model_path and the tokenizer from
\* tokenizer_path when one is given (from model_path otherwise); for every other
\* task it ends in a ValueError naming the task and no model is loaded.
C9_LoadOrUnsupported ==
    /\ pc = "returned" =>
          /\ args.task \in {"mlm", "classification"}
          /\ err = <<>>
          /\ model.path = args.model_path
          /\ model.class = (IF args.task = "mlm" THEN "AutoModelForMaskedLM"
                            ELSE "AutoModelForSequenceClassification")
          /\ tokenizer.class = "AutoTokenizer"
          /\ tokenizer.path = (IF args.tokenizer_path \in {"None", ""}
                               THEN args.model_path ELSE args.tokenizer_path)
    /\ pc = "error" =>
          /\ args.task \notin {"mlm", "classification"}
          /\ err = <<"ValueError", "Unsupported task: ", args.task>>
          /\ model = NoObject
    /\ (pc \notin {"load_tokenizer", "load_model"} /\ args.task \in {"mlm", "classification"})
          => pc = "returned"

\* a classifier has been returned with a tokenizer from its own path
C9_Witness ==
    /\ pc = "returned"
    /\ args.task = "classification"
    /\ args.tokenizer_path = "tok/a"
    /\ tokenizer.path = "tok/a"
    /\ model.path = args.model_path
    /\ model.class = "AutoModelForSequenceClassification"

-----------------------------------------------------------------------------
(* C10 *)

\* C10: no record is emitted whose slice of loss, prediction or sequence is
\* empty: each holds end - start >= 1 elements (a row for which one would be
\* empty ends the run with an error instead).
C10_NoEmptySlice ==
    Extracted =>
        \A j \in 1..Len(AcceptedSoFar) : \A k \in 1..Len(REGIONS) :
            LET r == df[AcceptedSoFar[j][1]]
                ch == AcceptedSoFar[j][2]
                start == RunStart(CdrMask(r, ch), k)
                end == RunEnd(CdrMask(r, ch), k)
            IN  /\ end - start >= 1
                /\ Len(RecordOf(j, k).loss) = end - start
                /\ Len(Slice(ChainPred(r, ch), start, end)) = end - start
                /\ Len(Slice(ChainSeq(r, ch), start, end)) = end - start

=============================================================================
